---- MODULE Spec2Model ----
(***************************************************************************)
(* The prediction market contract of contract/src/lib.rs as a state        *)
(* machine.  The ledger is PredictionMarketState (next_market_id, markets, *)
(* user_bets); the four handlers create_market, place_bet, resolve_market  *)
(* and claim_reward are operators from (ledger, context, arguments) to     *)
(* (ledger, result), and one action per message variant applies them.      *)
(***************************************************************************)
EXTENDS Integers, Sequences, FiniteSets, TLC

VARIABLES next_market_id, markets, user_bets, now, last

vars == <<next_market_id, markets, user_bets, now, last>>

(***************************************************************************)
(* Bounds of the model.                                                    *)
(***************************************************************************)
\* Amount is a 128-bit unsigned integer in the SDK; the model keeps the
\* arithmetic modular at a width TLC's integers can hold.
AmountBits == 20
\* The host clock runs from 0 to MaxMinutes minutes.
MaxMinutes == 1

AmountModulus == 2 ^ AmountBits

\* The host advances system_time() one minute at a time.
TickMs == 60 * 1000

(***************************************************************************)
(* Data.                                                                   *)
(***************************************************************************)
\* authenticated_signer() returning None.
NoSigner == "NoSigner"

\* Option<String>: None and Some(s).
None == <<>>
Some(s) == <<s>>

\* BTreeMap::new(), BTreeMap::insert (an existing key is overwritten) and
\* get(..).copied().unwrap_or(Amount::ZERO).
EmptyMap == <<>>
MapInsert(map, key, value) == (key :> value) @@ map
\* A lookup that never finds the entry.
GetOrZeroMissing(map, key) == 0
GetOrZero(map, key) == IF key \in DOMAIN map THEN map[key] ELSE 0

\* Vec<String>::contains.
Contains(options, option) == \E i \in 1..Len(options) : options[i] = option

\* PredictionMarketState as one value.
Ledger == [next_market_id |-> next_market_id, markets |-> markets,
           user_bets |-> user_bets]

\* Result<Vec<PredictionMarketEffect>, ContractError>, paired with the
\* ledger the call leaves behind.
Ok(st, effect) == [st |-> st, ok |-> TRUE, err |-> "", effects |-> <<effect>>]
Err(st, msg) == [st |-> st, ok |-> FALSE, err |-> msg, effects |-> <<>>]
\* An arithmetic overflow or an unwrap of None aborts the call; the host
\* drops the aborted call's changes.
Panic(st) == [st |-> st, ok |-> FALSE, err |-> "panic", effects |-> <<>>]

ErrNoSigner == "Unauthorized: No authenticated signer"
ErrNotFound == "Market not found"
ErrPanic == "panic"
NoError == ""

(***************************************************************************)
(* create_market                                                           *)
(***************************************************************************)
\* The checks with options.len() < 1 at line 223.
create_market_error_one_option(ctx, question, options, max_reward) ==
    IF question = "" THEN "Question cannot be empty"
    ELSE IF Len(options) < 1 THEN "At least 2 options required"
    ELSE IF max_reward = 0 THEN "Max reward must be greater than 0"
    ELSE IF ctx.signer = NoSigner THEN ErrNoSigner
    ELSE NoError

\* Lines 219-233: the checks, in the order of the code; NoError when all
\* pass.
create_market_error(ctx, question, options, max_reward) ==
    IF question = "" THEN "Question cannot be empty"
    ELSE IF Len(options) < 2 THEN "At least 2 options required"
    ELSE IF max_reward = 0 THEN "Max reward must be greater than 0"
    ELSE IF ctx.signer = NoSigner THEN ErrNoSigner
    ELSE NoError

\* The handler without line 258: the counter stays where it was.
create_market_same_id(st, ctx, question, description, duration_minutes, options, max_reward) ==
    LET error == create_market_error(ctx, question, options, max_reward) IN
    IF error # NoError THEN Err(st, error)
    ELSE
      LET market == [id |-> st.next_market_id,
                     creator |-> ctx.signer,
                     question |-> question,
                     description |-> description,
                     end_time |-> ctx.now + (duration_minutes * 60 * 1000),
                     status |-> "Active",
                     options |-> options,
                     correct_answer |-> None,
                     bets |-> EmptyMap,
                     total_pool |-> 0,
                     max_reward |-> max_reward,
                     created_at |-> ctx.now]
      IN Ok([st EXCEPT !.markets = MapInsert(@, st.next_market_id, market)],
            [type |-> "MarketCreated", market_id |-> st.next_market_id,
             creator |-> ctx.signer])

create_market(st, ctx, question, description, duration_minutes, options, max_reward) ==
    LET error == create_market_error(ctx, question, options, max_reward) IN
    IF error # NoError THEN Err(st, error)
    ELSE
      LET creator == ctx.signer
          end_time == ctx.now + (duration_minutes * 60 * 1000)
          market_id == st.next_market_id
          market == [id |-> market_id,
                     creator |-> creator,
                     question |-> question,
                     description |-> description,
                     end_time |-> end_time,
                     status |-> "Active",
                     options |-> options,
                     correct_answer |-> None,
                     bets |-> EmptyMap,
                     total_pool |-> 0,
                     max_reward |-> max_reward,
                     created_at |-> ctx.now]
      IN Ok([st EXCEPT !.markets = MapInsert(@, market_id, market),
                       !.next_market_id = @ + 1],
            [type |-> "MarketCreated", market_id |-> market_id, creator |-> creator])

(***************************************************************************)
(* place_bet                                                               *)
(***************************************************************************)
\* A duplicate check that never finds the bet.
HasBetNever(st, bet_key) == FALSE
\* Lines 307 and 438: whether user_bets holds the key.
HasBet(st, bet_key) == bet_key \in DOMAIN st.user_bets

\* The checks without the one on the clock: the stored status is trusted.
place_bet_error_trusts_status(st, ctx, market_id, option, amount) ==
    IF amount = 0 THEN "Bet amount must be greater than 0"
    ELSE IF ctx.signer = NoSigner THEN ErrNoSigner
    ELSE IF market_id \notin DOMAIN st.markets THEN ErrNotFound
    ELSE IF st.markets[market_id].status # "Active" THEN "Market is not active"
    ELSE IF ~Contains(st.markets[market_id].options, option) THEN "Invalid option"
    ELSE IF HasBet(st, <<market_id, ctx.signer>>)
      THEN "User already placed a bet on this market"
    ELSE NoError

\* The checks without lines 300-303: any label is taken as the option.
place_bet_error_any_option(st, ctx, market_id, option, amount) ==
    IF amount = 0 THEN "Bet amount must be greater than 0"
    ELSE IF ctx.signer = NoSigner THEN ErrNoSigner
    ELSE IF market_id \notin DOMAIN st.markets THEN ErrNotFound
    ELSE IF st.markets[market_id].status # "Active" THEN "Market is not active"
    ELSE IF ctx.now >= st.markets[market_id].end_time THEN "Market has ended"
    ELSE IF HasBet(st, <<market_id, ctx.signer>>)
      THEN "User already placed a bet on this market"
    ELSE NoError

\* The checks of lines 275-309 with the end-time check ahead of the status
\* check.
place_bet_error_time_first(st, ctx, market_id, option, amount) ==
    IF amount = 0 THEN "Bet amount must be greater than 0"
    ELSE IF ctx.signer = NoSigner THEN ErrNoSigner
    ELSE IF market_id \notin DOMAIN st.markets THEN ErrNotFound
    ELSE IF ctx.now >= st.markets[market_id].end_time THEN "Market has ended"
    ELSE IF st.markets[market_id].status # "Active" THEN "Market is not active"
    ELSE IF ~Contains(st.markets[market_id].options, option) THEN "Invalid option"
    ELSE IF HasBet(st, <<market_id, ctx.signer>>)
      THEN "User already placed a bet on this market"
    ELSE NoError

\* Lines 275-309.
place_bet_error(st, ctx, market_id, option, amount) ==
    IF amount = 0 THEN "Bet amount must be greater than 0"
    ELSE IF ctx.signer = NoSigner THEN ErrNoSigner
    ELSE IF market_id \notin DOMAIN st.markets THEN ErrNotFound
    ELSE IF st.markets[market_id].status # "Active" THEN "Market is not active"
    ELSE IF ctx.now >= st.markets[market_id].end_time THEN "Market has ended"
    ELSE IF ~Contains(st.markets[market_id].options, option) THEN "Invalid option"
    ELSE IF HasBet(st, <<market_id, ctx.signer>>)
      THEN "User already placed a bet on this market"
    ELSE NoError

\* Lines 329-332: the market after the stake is added; the sums are formed
\* in the Amount type.
AddStake(market, option, amount) ==
    [market EXCEPT
       !.bets = MapInsert(@, option, (GetOrZero(market.bets, option) + amount) % AmountModulus),
       !.total_pool = (@ + amount) % AmountModulus]

StakeOverflows(market, option, amount) ==
    \/ GetOrZero(market.bets, option) + amount >= AmountModulus
    \/ market.total_pool + amount >= AmountModulus

place_bet(st, ctx, market_id, option, amount) ==
    LET error == place_bet_error(st, ctx, market_id, option, amount) IN
    IF error # NoError THEN Err(st, error)
    ELSE
      LET user == ctx.signer
          market == st.markets[market_id]
          bet == [market_id |-> market_id,
                  user |-> user,
                  option |-> option,
                  amount |-> amount,
                  timestamp |-> ctx.now,
                  claimed |-> FALSE,
                  reward_amount |-> 0]
      IN
      IF ctx.overflow_checks /\ StakeOverflows(market, option, amount) THEN Panic(st)
      ELSE
        Ok([st EXCEPT !.user_bets = MapInsert(@, <<market_id, user>>, bet),
                      !.markets[market_id] = AddStake(market, option, amount)],
           [type |-> "BetPlaced", market_id |-> market_id, user |-> user,
            option |-> option, amount |-> amount])

(***************************************************************************)
(* resolve_market                                                          *)
(***************************************************************************)
\* The checks with the status looked at before the caller.
resolve_market_error_status_first(st, ctx, market_id, correct_answer) ==
    IF ctx.signer = NoSigner THEN ErrNoSigner
    ELSE IF market_id \notin DOMAIN st.markets THEN ErrNotFound
    ELSE IF st.markets[market_id].status = "Resolved" THEN "Market already resolved"
    ELSE IF st.markets[market_id].creator # ctx.signer
      THEN "Only creator can resolve market"
    ELSE IF ctx.now < st.markets[market_id].end_time THEN "Market has not ended yet"
    ELSE IF ~Contains(st.markets[market_id].options, correct_answer)
      THEN "Invalid correct answer"
    ELSE NoError

\* The checks without the one on the clock.
resolve_market_error_any_time(st, ctx, market_id, correct_answer) ==
    IF ctx.signer = NoSigner THEN ErrNoSigner
    ELSE IF market_id \notin DOMAIN st.markets THEN ErrNotFound
    ELSE IF st.markets[market_id].creator # ctx.signer
      THEN "Only creator can resolve market"
    ELSE IF st.markets[market_id].status = "Resolved" THEN "Market already resolved"
    ELSE IF ~Contains(st.markets[market_id].options, correct_answer)
      THEN "Invalid correct answer"
    ELSE NoError

\* The checks with one more: an answer nobody bet on is refused.
resolve_market_error_needs_winner(st, ctx, market_id, correct_answer) ==
    IF ctx.signer = NoSigner THEN ErrNoSigner
    ELSE IF market_id \notin DOMAIN st.markets THEN ErrNotFound
    ELSE IF st.markets[market_id].creator # ctx.signer
      THEN "Only creator can resolve market"
    ELSE IF st.markets[market_id].status = "Resolved" THEN "Market already resolved"
    ELSE IF ctx.now < st.markets[market_id].end_time THEN "Market has not ended yet"
    ELSE IF ~Contains(st.markets[market_id].options, correct_answer)
      THEN "Invalid correct answer"
    ELSE IF GetOrZero(st.markets[market_id].bets, correct_answer) = 0
      THEN "No winning bets"
    ELSE NoError

\* The checks with line 370 comparing the clock with created_at.
resolve_market_error_since_creation(st, ctx, market_id, correct_answer) ==
    IF ctx.signer = NoSigner THEN ErrNoSigner
    ELSE IF market_id \notin DOMAIN st.markets THEN ErrNotFound
    ELSE IF st.markets[market_id].creator # ctx.signer
      THEN "Only creator can resolve market"
    ELSE IF st.markets[market_id].status = "Resolved" THEN "Market already resolved"
    ELSE IF ctx.now < st.markets[market_id].created_at THEN "Market has not ended yet"
    ELSE IF ~Contains(st.markets[market_id].options, correct_answer)
      THEN "Invalid correct answer"
    ELSE NoError

\* The checks without lines 374-378: any label is taken as the answer.
resolve_market_error_any_answer(st, ctx, market_id, correct_answer) ==
    IF ctx.signer = NoSigner THEN ErrNoSigner
    ELSE IF market_id \notin DOMAIN st.markets THEN ErrNotFound
    ELSE IF st.markets[market_id].creator # ctx.signer
      THEN "Only creator can resolve market"
    ELSE IF st.markets[market_id].status = "Resolved" THEN "Market already resolved"
    ELSE IF ctx.now < st.markets[market_id].end_time THEN "Market has not ended yet"
    ELSE NoError

\* Lines 350-378.
resolve_market_error(st, ctx, market_id, correct_answer) ==
    IF ctx.signer = NoSigner THEN ErrNoSigner
    ELSE IF market_id \notin DOMAIN st.markets THEN ErrNotFound
    ELSE IF st.markets[market_id].creator # ctx.signer
      THEN "Only creator can resolve market"
    ELSE IF st.markets[market_id].status = "Resolved" THEN "Market already resolved"
    ELSE IF ctx.now < st.markets[market_id].end_time THEN "Market has not ended yet"
    ELSE IF ~Contains(st.markets[market_id].options, correct_answer)
      THEN "Invalid correct answer"
    ELSE NoError

\* The share with the quotient rounded up instead of truncated.
RewardRoundUp(amount, total_pool, winning_bet_amount) ==
    IF total_pool > 0 /\ winning_bet_amount > 0
      THEN (((amount * total_pool) % AmountModulus) + winning_bet_amount - 1)
             \div winning_bet_amount
      ELSE 0

\* The share as the comment of line 391 words it: divide, then multiply.
RewardDivideFirst(amount, total_pool, winning_bet_amount) ==
    IF total_pool > 0 /\ winning_bet_amount > 0
      THEN ((amount \div winning_bet_amount) * total_pool) % AmountModulus
      ELSE 0

\* Lines 393-397: the share of one winning bet; the product is formed in
\* the Amount type.
Reward(amount, total_pool, winning_bet_amount) ==
    IF total_pool > 0 /\ winning_bet_amount > 0
      THEN ((amount * total_pool) % AmountModulus) \div winning_bet_amount
      ELSE 0

RewardOverflows(amount, total_pool, winning_bet_amount) ==
    /\ total_pool > 0 /\ winning_bet_amount > 0
    /\ amount * total_pool >= AmountModulus

\* The share paid out in full.
UncappedReward(reward, max_reward) == reward

\* Lines 398-402.
CappedReward(reward, max_reward) ==
    IF reward > max_reward THEN max_reward ELSE reward

\* The filter of line 390 without the comparison of the market id.
IsBetOnOption(bet_key, bet, market_id, correct_answer) ==
    bet.option = correct_answer

\* The filter of line 390 without the comparison of the option.
IsBetOnMarket(bet_key, bet, market_id, correct_answer) ==
    bet_key[1] = market_id

\* Line 390: the bets the loop writes to.
IsWinningBet(bet_key, bet, market_id, correct_answer) ==
    bet_key[1] = market_id /\ bet.option = correct_answer

\* Lines 385-406: user_bets after the reward pass.
AssignRewards(st, market_id, correct_answer) ==
    LET market == st.markets[market_id]
        winning_bet_amount == GetOrZero(market.bets, correct_answer)
    IN [bet_key \in DOMAIN st.user_bets |->
          IF /\ winning_bet_amount > 0
             /\ IsWinningBet(bet_key, st.user_bets[bet_key], market_id, correct_answer)
            THEN [st.user_bets[bet_key] EXCEPT !.reward_amount =
                    CappedReward(Reward(st.user_bets[bet_key].amount, market.total_pool,
                                        winning_bet_amount),
                                 market.max_reward)]
            ELSE st.user_bets[bet_key]]

AnyRewardOverflows(st, market_id, correct_answer) ==
    LET market == st.markets[market_id]
        winning_bet_amount == GetOrZero(market.bets, correct_answer)
    IN \E bet_key \in DOMAIN st.user_bets :
          /\ IsWinningBet(bet_key, st.user_bets[bet_key], market_id, correct_answer)
          /\ RewardOverflows(st.user_bets[bet_key].amount, market.total_pool,
                             winning_bet_amount)

\* The handler with lines 380-382 moved above the check of the answer.
resolve_market_marks_first(st, ctx, market_id, correct_answer) ==
    LET error == resolve_market_error(st, ctx, market_id, correct_answer) IN
    IF error = "Invalid correct answer"
      THEN Err([st EXCEPT !.markets[market_id].status = "Resolved"], error)
    ELSE IF error # NoError THEN Err(st, error)
    ELSE IF ctx.overflow_checks /\ AnyRewardOverflows(st, market_id, correct_answer)
      THEN Panic(st)
    ELSE
      Ok([st EXCEPT !.markets[market_id].status = "Resolved",
                    !.markets[market_id].correct_answer = Some(correct_answer),
                    !.user_bets = AssignRewards(st, market_id, correct_answer)],
         [type |-> "MarketResolved", market_id |-> market_id,
          correct_answer |-> correct_answer])

resolve_market(st, ctx, market_id, correct_answer) ==
    LET error == resolve_market_error(st, ctx, market_id, correct_answer) IN
    IF error # NoError THEN Err(st, error)
    ELSE IF ctx.overflow_checks /\ AnyRewardOverflows(st, market_id, correct_answer)
      THEN Panic(st)
    ELSE
      Ok([st EXCEPT !.markets[market_id].status = "Resolved",
                    !.markets[market_id].correct_answer = Some(correct_answer),
                    !.user_bets = AssignRewards(st, market_id, correct_answer)],
         [type |-> "MarketResolved", market_id |-> market_id,
          correct_answer |-> correct_answer])

(***************************************************************************)
(* claim_reward                                                            *)
(***************************************************************************)
\* The checks without the one on the claimed flag.
claim_reward_error_unchecked(st, ctx, market_id) ==
    IF ctx.signer = NoSigner THEN ErrNoSigner
    ELSE IF market_id \notin DOMAIN st.markets THEN ErrNotFound
    ELSE IF st.markets[market_id].status # "Resolved" THEN "Market is not resolved"
    ELSE IF ~HasBet(st, <<market_id, ctx.signer>>) THEN "User has no bet on this market"
    ELSE IF st.markets[market_id].correct_answer = None THEN ErrPanic
    ELSE IF Some(st.user_bets[<<market_id, ctx.signer>>].option)
              # st.markets[market_id].correct_answer
      THEN "User did not win this market"
    ELSE IF st.user_bets[<<market_id, ctx.signer>>].reward_amount = 0
      THEN "No reward available"
    ELSE NoError

\* Lines 421-455; correct_answer.as_ref().unwrap() aborts on None.
claim_reward_error(st, ctx, market_id) ==
    IF ctx.signer = NoSigner THEN ErrNoSigner
    ELSE IF market_id \notin DOMAIN st.markets THEN ErrNotFound
    ELSE IF st.markets[market_id].status # "Resolved" THEN "Market is not resolved"
    ELSE IF ~HasBet(st, <<market_id, ctx.signer>>) THEN "User has no bet on this market"
    ELSE IF st.markets[market_id].correct_answer = None THEN ErrPanic
    ELSE IF Some(st.user_bets[<<market_id, ctx.signer>>].option)
              # st.markets[market_id].correct_answer
      THEN "User did not win this market"
    ELSE IF st.user_bets[<<market_id, ctx.signer>>].claimed THEN "Reward already claimed"
    ELSE IF st.user_bets[<<market_id, ctx.signer>>].reward_amount = 0
      THEN "No reward available"
    ELSE NoError

\* The handler paying the reward out of the market's total_pool.
claim_reward_pays_from_pool(st, ctx, market_id) ==
    LET error == claim_reward_error(st, ctx, market_id) IN
    IF error # NoError THEN Err(st, error)
    ELSE
      Ok([st EXCEPT !.user_bets[<<market_id, ctx.signer>>].claimed = TRUE,
                    !.markets[market_id].total_pool =
                       (@ + AmountModulus
                          - st.user_bets[<<market_id, ctx.signer>>].reward_amount)
                         % AmountModulus],
         [type |-> "RewardClaimed", market_id |-> market_id, user |-> ctx.signer,
          amount |-> st.user_bets[<<market_id, ctx.signer>>].reward_amount])

\* The handler with line 458 applied to every bet of the market.
claim_reward_marks_market(st, ctx, market_id) ==
    LET error == claim_reward_error(st, ctx, market_id) IN
    IF error # NoError THEN Err(st, error)
    ELSE
      Ok([st EXCEPT !.user_bets =
            [bet_key \in DOMAIN st.user_bets |->
               IF bet_key[1] = market_id
                 THEN [st.user_bets[bet_key] EXCEPT !.claimed = TRUE]
                 ELSE st.user_bets[bet_key]]],
         [type |-> "RewardClaimed", market_id |-> market_id, user |-> ctx.signer,
          amount |-> st.user_bets[<<market_id, ctx.signer>>].reward_amount])

claim_reward(st, ctx, market_id) ==
    LET error == claim_reward_error(st, ctx, market_id) IN
    IF error # NoError THEN Err(st, error)
    ELSE
      Ok([st EXCEPT !.user_bets[<<market_id, ctx.signer>>].claimed = TRUE],
         [type |-> "RewardClaimed", market_id |-> market_id, user |-> ctx.signer,
          amount |-> st.user_bets[<<market_id, ctx.signer>>].reward_amount])

(***************************************************************************)
(* The state machine.                                                      *)
(***************************************************************************)
\* instantiate: PredictionMarketState::default().
Init ==
    /\ next_market_id = 1
    /\ markets = EmptyMap
    /\ user_bets = EmptyMap
    /\ now = 0
    /\ last = [op |-> "instantiate", ok |-> TRUE, err |-> NoError, effects |-> <<>>]

\* ContractRuntimeContext: the signer and the clock, and whether the build
\* traps on arithmetic overflow (a debug build) or wraps (a release build).
Context(signer, time, checks) ==
    [signer |-> signer, now |-> time, overflow_checks |-> checks]

\* execute_message: the ledger is what the handler leaves, and the caller
\* gets the handler's result.
Apply(op, res) ==
    /\ next_market_id' = res.st.next_market_id
    /\ markets' = res.st.markets
    /\ user_bets' = res.st.user_bets
    /\ last' = [op |-> op, ok |-> res.ok, err |-> res.err, effects |-> res.effects]
    /\ UNCHANGED now

\* new_ids: the ids the specification lets the ledger allocate.
CreateMarket(signer, checks, question, description, duration_minutes, options, max_reward, new_ids) ==
    LET res == create_market(Ledger, Context(signer, now, checks), question, description,
                             duration_minutes, options, max_reward)
    IN /\ res.ok => next_market_id \in new_ids
       /\ Apply("CreateMarket", res)

PlaceBet(signer, checks, market_id, option, amount) ==
    Apply("PlaceBet",
          place_bet(Ledger, Context(signer, now, checks), market_id, option, amount))

ResolveMarket(signer, checks, market_id, correct_answer) ==
    Apply("ResolveMarket",
          resolve_market(Ledger, Context(signer, now, checks), market_id, correct_answer))

ClaimReward(signer, checks, market_id) ==
    Apply("ClaimReward", claim_reward(Ledger, Context(signer, now, checks), market_id))

\* The host's clock: monotonic, here in steps of one minute.
Tick ==
    /\ now < MaxMinutes * TickMs
    /\ now' = now + TickMs
    /\ UNCHANGED <<next_market_id, markets, user_bets, last>>

\* The clock values of the model, and one past them.
Times == {minute * TickMs : minute \in 0..(MaxMinutes + 1)}

Users == {"A", "B", "C"}
Labels == {"Yes", "No", "Maybe"}
Builds == BOOLEAN

\* The inputs of the single-market specification: three bettors, stakes with
\* and without a remainder in the division, a cap that binds and one that
\* does not.  The stakes stay far below the Amount type's range.
PoolInputs ==
    [creators |-> {"A", NoSigner},
     signers |-> Users \cup {NoSigner},
     builds |-> {FALSE},
     questions |-> {"", "Q"},
     durations |-> {0, 1},
     optionLists |-> {<<"Yes">>, <<"Yes", "No">>},
     maxRewards |-> {0, 200, 1000},
     newIds |-> {1},
     marketIds |-> {1},
     amounts |-> {0, 1, 100, 300}]

\* The inputs of the two-market specification: a creator who also bets, a
\* second bettor, and calls that name either market.
LedgerInputs ==
    [creators |-> {"A", NoSigner},
     signers |-> {"A", "B", NoSigner},
     builds |-> {FALSE},
     questions |-> {"", "Q"},
     durations |-> {1},
     optionLists |-> {<<"Yes">>, <<"Yes", "No">>},
     maxRewards |-> {0, 1},
     newIds |-> {1, 2},
     marketIds |-> {1, 2},
     amounts |-> {0, 1}]

NextOn(in) ==
    \/ \E signer \in in.creators, checks \in in.builds, question \in in.questions,
          duration_minutes \in in.durations, options \in in.optionLists,
          max_reward \in in.maxRewards :
         CreateMarket(signer, checks, question, "D", duration_minutes, options,
                      max_reward, in.newIds)
    \/ \E signer \in in.signers, checks \in in.builds, market_id \in in.marketIds,
          option \in Labels, amount \in in.amounts :
         PlaceBet(signer, checks, market_id, option, amount)
    \/ \E signer \in in.signers, checks \in in.builds, market_id \in in.marketIds,
          correct_answer \in Labels :
         ResolveMarket(signer, checks, market_id, correct_answer)
    \/ \E signer \in in.signers, checks \in in.builds, market_id \in in.marketIds :
         ClaimReward(signer, checks, market_id)
    \/ Tick

PoolNext == NextOn(PoolInputs)

SpecPool == Init /\ [][PoolNext]_vars

LedgerNext == NextOn(LedgerInputs)

Spec == Init /\ [][LedgerNext]_vars

\* One market with stakes in the upper half of the Amount range, both
\* builds, and an options list that repeats a label.
EdgeInputs ==
    [creators |-> {"A", NoSigner},
     signers |-> {"A", "B", NoSigner},
     builds |-> Builds,
     questions |-> {"", "Q"},
     durations |-> {1},
     optionLists |-> {<<"Yes">>, <<"Yes", "No">>, <<"Yes", "Yes">>},
     maxRewards |-> {0, 4096},
     newIds |-> {1},
     marketIds |-> {1},
     amounts |-> {0, 1024, 1500}]

EdgeNext == NextOn(EdgeInputs)

SpecEdge == Init /\ [][EdgeNext]_vars

\* The edge inputs with every user's ClaimReward on every market taken
\* again and again: a user who keeps calling is served.
EdgeClaimFairness ==
    \A signer \in EdgeInputs.signers \ {NoSigner}, market_id \in EdgeInputs.marketIds :
       WF_vars(\E checks \in EdgeInputs.builds : ClaimReward(signer, checks, market_id))

FairSpecEdge == SpecEdge /\ EdgeClaimFairness

(***************************************************************************)
(* The properties.  The calls a property quantifies over are drawn from    *)
(* the sets below, whatever the specification's own inputs are.            *)
(***************************************************************************)
AnySigner == Users \cup {NoSigner}
AnyAmount == {0, 1, 300}
AnyMarketId == {1, 2, 3}

RECURSIVE SumOver(_, _)
SumOver(map, keys) ==
    IF keys = {} THEN 0
    ELSE LET key == CHOOSE k \in keys : TRUE
         IN map[key] + SumOver(map, keys \ {key})

\* A step that is a call of op (the clock's steps leave the ledger and the
\* last result alone), and one whose call succeeded.
Called(op) == now' = now /\ last'.op = op
Succeeded(op) == Called(op) /\ last'.ok

\* The bets stored for one market.
BetsOn(market_id) == {bet_key \in DOMAIN user_bets : bet_key[1] = market_id}

\* C1: in every reachable state, for every stored market, the per-option
\* totals in its bets map add up to its total_pool.
PoolConservation ==
    \A id \in DOMAIN markets :
        SumOver(markets[id].bets, DOMAIN markets[id].bets) = markets[id].total_pool

\* Two bettors on one option, a third on the other, and a rejected call last.
PoolConservationWitness ==
    \E id \in DOMAIN markets :
        /\ DOMAIN markets[id].bets = {"Yes", "No"}
        /\ markets[id].bets["Yes"] = 101
        /\ markets[id].bets["No"] = 300
        /\ markets[id].total_pool = 401
        /\ ~last.ok

\* C2: once (market, user) holds a bet, no PlaceBet by that user on that
\* market succeeds, whatever option or amount it names; an attempt that
\* passes the earlier checks is rejected as a duplicate; and no step
\* removes or rewrites a stored bet's market, user, option, amount or
\* timestamp, a successful PlaceBet adding a bet under a key that held none.
NoSecondBet ==
    \A bet_key \in DOMAIN user_bets :
      \A checks \in Builds, option \in Labels, amount \in AnyAmount :
        LET market == markets[bet_key[1]]
            res == place_bet(Ledger, Context(bet_key[2], now, checks), bet_key[1],
                             option, amount)
        IN /\ ~res.ok
           /\ res.st = Ledger
           /\ (/\ amount > 0
               /\ market.status = "Active"
               /\ now < market.end_time
               /\ Contains(market.options, option))
              => res.err = "User already placed a bet on this market"

BetsKept ==
    /\ \A bet_key \in DOMAIN user_bets :
          /\ bet_key \in DOMAIN user_bets'
          /\ user_bets'[bet_key].market_id = user_bets[bet_key].market_id
          /\ user_bets'[bet_key].user = user_bets[bet_key].user
          /\ user_bets'[bet_key].option = user_bets[bet_key].option
          /\ user_bets'[bet_key].amount = user_bets[bet_key].amount
          /\ user_bets'[bet_key].timestamp = user_bets[bet_key].timestamp
    /\ Succeeded("PlaceBet") =>
          LET placed == <<last'.effects[1].market_id, last'.effects[1].user>>
          IN /\ placed \notin DOMAIN user_bets
             /\ DOMAIN user_bets' = DOMAIN user_bets \cup {placed}
    /\ (DOMAIN user_bets' # DOMAIN user_bets) => Succeeded("PlaceBet")

\* C2, as one formula: NoSecondBet in every reachable state and BetsKept in
\* every step.
OneBetPerUser == []NoSecondBet /\ [][BetsKept]_vars

\* A second bet by the same user on a market still open was just rejected.
OneBetPerUserWitness ==
    /\ last.op = "PlaceBet"
    /\ last.err = "User already placed a bet on this market"
    /\ \E bet_key \in DOMAIN user_bets :
          /\ markets[bet_key[1]].status = "Active"
          /\ now < markets[bet_key[1]].end_time

Min(a, b) == IF a < b THEN a ELSE b

\* A market's stake on one option, 0 when the bets map has no such entry.
PoolOf(market, option) == IF option \in DOMAIN market.bets THEN market.bets[option] ELSE 0

Resolved(id) == id \in DOMAIN markets /\ markets[id].status = "Resolved"

\* The bets on a resolved market's correct answer.
WinningBets(id) ==
    {bet_key \in BetsOn(id) : Some(user_bets[bet_key].option) = markets[id].correct_answer}

\* A Yes/No market with A on Yes for 100, B on No for 300 and C on Yes
\* for 100, resolved Yes.
ScenarioResolved(id, max_reward) ==
    /\ Resolved(id)
    /\ markets[id].correct_answer = Some("Yes")
    /\ markets[id].max_reward = max_reward
    /\ BetsOn(id) = {<<id, "A">>, <<id, "B">>, <<id, "C">>}
    /\ user_bets[<<id, "A">>].option = "Yes" /\ user_bets[<<id, "A">>].amount = 100
    /\ user_bets[<<id, "B">>].option = "No" /\ user_bets[<<id, "B">>].amount = 300
    /\ user_bets[<<id, "C">>].option = "Yes" /\ user_bets[<<id, "C">>].amount = 100

ScenarioRewards(id, a, b, c) ==
    /\ user_bets[<<id, "A">>].reward_amount = a
    /\ user_bets[<<id, "B">>].reward_amount = b
    /\ user_bets[<<id, "C">>].reward_amount = c

\* C3: on a resolved market whose correct answer holds a positive stake,
\* every bet on that answer carries the reward
\* min(max_reward, floor(amount * total_pool / winning_pool)); the stakes
\* 100/300/100 resolved Yes give 250, 0, 250 under a cap of 1000 and
\* 200, 0, 200 under a cap of 200.
RewardFormula ==
    \A id \in DOMAIN markets :
      /\ Resolved(id) /\ PoolOf(markets[id], markets[id].correct_answer[1]) > 0 =>
           \A bet_key \in WinningBets(id) :
             user_bets[bet_key].reward_amount =
               Min(markets[id].max_reward,
                   (user_bets[bet_key].amount * markets[id].total_pool)
                     \div PoolOf(markets[id], markets[id].correct_answer[1]))
      /\ ScenarioResolved(id, 1000) => ScenarioRewards(id, 250, 0, 250)
      /\ ScenarioResolved(id, 200) => ScenarioRewards(id, 200, 0, 200)

\* The scenario under the cap of 1000, just resolved.
RewardFormulaWitness ==
    /\ last.op = "ResolveMarket" /\ last.ok
    /\ \E id \in DOMAIN markets :
          ScenarioResolved(id, 1000) /\ ScenarioRewards(id, 250, 0, 250)

\* C4: every bet's reward_amount is at most its market's max_reward, so the
\* rewards of a resolved market's winning bets add up to at most their
\* number times max_reward.
RewardCap ==
    /\ \A bet_key \in DOMAIN user_bets :
          user_bets[bet_key].reward_amount <= markets[bet_key[1]].max_reward
    /\ \A id \in DOMAIN markets :
          Resolved(id) =>
            SumOver([bet_key \in WinningBets(id) |-> user_bets[bet_key].reward_amount],
                    WinningBets(id))
              <= Cardinality(WinningBets(id)) * markets[id].max_reward

\* The scenario under the cap of 200: two winners whose share of 250 is cut.
RewardCapWitness ==
    \E id \in DOMAIN markets :
        ScenarioResolved(id, 200) /\ ScenarioRewards(id, 200, 0, 200)

\* C5: the creator's ResolveMarket on an unresolved market, at or after
\* end_time, with a valid answer that holds no stake, succeeds, stores
\* Resolved and the answer, and leaves every bet of the market with a
\* reward of 0; and a market resolved to an answer without stake keeps
\* every reward at 0.
ZeroWinnerResolution ==
    \A id \in DOMAIN markets :
      /\ \A answer \in Labels, checks \in Builds :
           LET market == markets[id]
               res == resolve_market(Ledger, Context(market.creator, now, checks), id,
                                     answer)
           IN (/\ market.status # "Resolved"
               /\ now >= market.end_time
               /\ Contains(market.options, answer)
               /\ PoolOf(market, answer) = 0)
              => /\ res.ok
                 /\ res.st.markets[id].status = "Resolved"
                 /\ res.st.markets[id].correct_answer = Some(answer)
                 /\ DOMAIN res.st.user_bets = DOMAIN user_bets
                 /\ \A bet_key \in BetsOn(id) :
                       res.st.user_bets[bet_key].reward_amount = 0
      /\ Resolved(id) /\ PoolOf(markets[id], markets[id].correct_answer[1]) = 0 =>
           \A bet_key \in BetsOn(id) : user_bets[bet_key].reward_amount = 0

\* A market with a pool, just resolved to the answer nobody bet on.
ZeroWinnerResolutionWitness ==
    /\ last.op = "ResolveMarket" /\ last.ok
    /\ \E id \in DOMAIN markets :
          /\ Resolved(id)
          /\ markets[id].total_pool > 0
          /\ markets[id].correct_answer[1] \notin DOMAIN markets[id].bets
          /\ Cardinality(BetsOn(id)) >= 2

\* The key of the bet a BetPlaced or RewardClaimed event is about.
EventKey(effect) == <<effect.market_id, effect.user>>

\* C6: a claimed bet's owner gets "Reward already claimed" from every
\* further ClaimReward on that market; no claim attempt by anyone changes a
\* reward_amount; a ClaimReward succeeds only on a bet not yet claimed, which
\* it marks claimed and whose reward it reports; and a claimed bet stays
\* claimed.  So at most one ClaimReward succeeds per (market, user).
NoSecondClaim ==
    /\ \A bet_key \in DOMAIN user_bets, checks \in Builds :
          user_bets[bet_key].claimed =>
            LET res == claim_reward(Ledger, Context(bet_key[2], now, checks), bet_key[1])
            IN ~res.ok /\ res.err = "Reward already claimed" /\ res.st = Ledger
    /\ \A signer \in AnySigner, id \in AnyMarketId, checks \in Builds :
          LET res == claim_reward(Ledger, Context(signer, now, checks), id)
          IN /\ DOMAIN res.st.user_bets = DOMAIN user_bets
             /\ \A bet_key \in DOMAIN user_bets :
                   res.st.user_bets[bet_key].reward_amount
                     = user_bets[bet_key].reward_amount

ClaimsOnce ==
    /\ \A bet_key \in DOMAIN user_bets :
          user_bets[bet_key].claimed =>
            bet_key \in DOMAIN user_bets' /\ user_bets'[bet_key].claimed
    /\ Succeeded("ClaimReward") =>
          /\ ~user_bets[EventKey(last'.effects[1])].claimed
          /\ user_bets'[EventKey(last'.effects[1])].claimed
          /\ last'.effects[1].amount = user_bets[EventKey(last'.effects[1])].reward_amount
    /\ Called("ClaimReward") =>
          \A bet_key \in DOMAIN user_bets :
             user_bets'[bet_key].reward_amount = user_bets[bet_key].reward_amount

\* C6, as one formula: NoSecondClaim in every reachable state and ClaimsOnce
\* in every step.
DoubleClaimPrevention == []NoSecondClaim /\ [][ClaimsOnce]_vars

\* A second claim on a claimed bet was just rejected.
DoubleClaimPreventionWitness ==
    /\ last.op = "ClaimReward"
    /\ last.err = "Reward already claimed"
    /\ \E bet_key \in DOMAIN user_bets :
          user_bets[bet_key].claimed /\ user_bets[bet_key].reward_amount > 0

\* The arguments CreateMarket is tried with.
AnyQuestion == {"", "Q"}
AnyOptionList == {<<>>, <<"Yes">>, <<"Yes", "No">>, <<"Yes", "Yes">>}
AnyDuration == {0, 1}

\* C7: a call that fails leaves next_market_id, every market and every bet
\* as they were: in every reachable state, for each of the four handlers
\* and every argument, a failing call returns the ledger it was given, and
\* no failing step of a behaviour changes the ledger.
FailureKeepsLedger ==
    /\ \A signer \in AnySigner, checks \in Builds, question \in AnyQuestion,
          duration_minutes \in AnyDuration, options \in AnyOptionList,
          max_reward \in AnyAmount :
          LET res == create_market(Ledger, Context(signer, now, checks), question, "D",
                                   duration_minutes, options, max_reward)
          IN ~res.ok => res.st = Ledger
    /\ \A signer \in AnySigner, checks \in Builds, id \in AnyMarketId :
          /\ \A option \in Labels, amount \in AnyAmount :
                LET res == place_bet(Ledger, Context(signer, now, checks), id, option,
                                     amount)
                IN ~res.ok => res.st = Ledger
          /\ \A correct_answer \in Labels :
                LET res == resolve_market(Ledger, Context(signer, now, checks), id,
                                          correct_answer)
                IN ~res.ok => res.st = Ledger
          /\ LET res == claim_reward(Ledger, Context(signer, now, checks), id)
             IN ~res.ok => res.st = Ledger

FailedStepKeepsLedger ==
    (now' = now /\ ~last'.ok) => UNCHANGED <<next_market_id, markets, user_bets>>

\* C7, as one formula: FailureKeepsLedger in every reachable state and
\* FailedStepKeepsLedger in every step.
AtomicOnError == []FailureKeepsLedger /\ [][FailedStepKeepsLedger]_vars

\* The last check of resolve_market just failed on a market that has ended
\* with bets on it.
AtomicOnErrorWitness ==
    /\ last.op = "ResolveMarket"
    /\ last.err = "Invalid correct answer"
    /\ \E id \in DOMAIN markets :
          /\ markets[id].status = "Active"
          /\ now >= markets[id].end_time
          /\ markets[id].total_pool > 0

\* C8: whatever clock value the host passes, a PlaceBet succeeds only on a
\* market whose stored status is Active and before its end_time; at or after
\* end_time a PlaceBet with a positive amount and a signer on a market still
\* stored as Active fails with "Market has ended" and changes nothing.
BettingWindow ==
    \A id \in DOMAIN markets, signer \in AnySigner, checks \in Builds,
       option \in Labels, amount \in AnyAmount, time \in Times :
       LET market == markets[id]
           res == place_bet(Ledger, Context(signer, time, checks), id, option, amount)
       IN /\ res.ok => (market.status = "Active" /\ time < market.end_time)
          /\ (/\ amount > 0
              /\ signer # NoSigner
              /\ market.status = "Active"
              /\ time >= market.end_time)
             => (res.err = "Market has ended" /\ res.st = Ledger)

\* A bet was just refused as late on a market still stored as Active.
BettingWindowWitness ==
    /\ last.op = "PlaceBet"
    /\ last.err = "Market has ended"
    /\ \E id \in DOMAIN markets :
          markets[id].status = "Active" /\ now >= markets[id].end_time

\* C9: whatever the market's status, the clock and the answer, ResolveMarket
\* succeeds only for the market's creator and refuses every other identity
\* with "Only creator can resolve market"; on a resolved market the creator
\* gets "Market already resolved"; a successful ResolveMarket takes its
\* market from unresolved to Resolved, where it stays, so that at most one
\* succeeds per market.
OnlyCreatorResolves ==
    \A id \in DOMAIN markets, signer \in AnySigner, checks \in Builds,
       correct_answer \in Labels, time \in Times :
       LET market == markets[id]
           res == resolve_market(Ledger, Context(signer, time, checks), id, correct_answer)
       IN /\ res.ok => signer = market.creator
          /\ (signer \in Users /\ signer # market.creator)
             => (res.err = "Only creator can resolve market" /\ res.st = Ledger)
          /\ (signer = market.creator /\ market.status = "Resolved")
             => (res.err = "Market already resolved" /\ res.st = Ledger)

ResolvesOnce ==
    /\ Succeeded("ResolveMarket") =>
          /\ markets[last'.effects[1].market_id].status # "Resolved"
          /\ markets'[last'.effects[1].market_id].status = "Resolved"
    /\ \A id \in DOMAIN markets :
          markets[id].status = "Resolved" =>
            id \in DOMAIN markets' /\ markets'[id].status = "Resolved"

\* C9, as one formula: OnlyCreatorResolves in every reachable state and
\* ResolvesOnce in every step.
ResolutionAuthority == []OnlyCreatorResolves /\ [][ResolvesOnce]_vars

\* Somebody other than the creator was just refused on a ledger whose
\* markets are all resolved.
ResolutionAuthorityWitness ==
    /\ last.op = "ResolveMarket"
    /\ last.err = "Only creator can resolve market"
    /\ DOMAIN markets # {}
    /\ \A id \in DOMAIN markets : markets[id].status = "Resolved"

\* C10: a stored status is Active or Resolved, never Locked; a market is
\* stored as Active when created and is never removed; its status changes
\* only from Active to Resolved, only in a successful ResolveMarket on that
\* market taken at or after its end_time; a Resolved market stays Resolved.
StatusStored ==
    \A id \in DOMAIN markets : markets[id].status \in {"Active", "Resolved"}

StatusStep ==
    /\ DOMAIN markets \subseteq DOMAIN markets'
    /\ \A id \in DOMAIN markets' \ DOMAIN markets : markets'[id].status = "Active"
    /\ \A id \in DOMAIN markets :
          /\ markets[id].status = "Resolved" => markets'[id].status = "Resolved"
          /\ markets'[id].status # markets[id].status =>
                /\ markets[id].status = "Active"
                /\ markets'[id].status = "Resolved"
                /\ Succeeded("ResolveMarket")
                /\ last'.effects[1].market_id = id
                /\ now >= markets[id].end_time

\* C10, as one formula: StatusStored in every reachable state and StatusStep
\* in every step.
LifecycleLegal == []StatusStored /\ [][StatusStep]_vars

\* A resolved market seen after a later successful call.
LifecycleLegalWitness ==
    /\ last.op = "ClaimReward" /\ last.ok
    /\ \E id \in DOMAIN markets : markets[id].status = "Resolved"
    /\ \E id \in DOMAIN markets : markets[id].status = "Active"

\* C11: the stored market ids are exactly 1..next_market_id-1 and each
\* market's id field is its key; a successful CreateMarket stores the new
\* market under the current next_market_id, which it reports and raises by
\* one; every other step leaves the counter alone; no step removes a market
\* or rewrites the id, creator, question, options or creation time stored
\* under an id.
IdsDense ==
    /\ next_market_id >= 1
    /\ DOMAIN markets = 1..(next_market_id - 1)
    /\ \A id \in DOMAIN markets : markets[id].id = id

IdsStep ==
    /\ Succeeded("CreateMarket") =>
          /\ last'.effects[1].market_id = next_market_id
          /\ next_market_id' = next_market_id + 1
          /\ DOMAIN markets' = DOMAIN markets \cup {next_market_id}
          /\ next_market_id \notin DOMAIN markets
    /\ ~Succeeded("CreateMarket") => next_market_id' = next_market_id
    /\ \A id \in DOMAIN markets :
          /\ id \in DOMAIN markets'
          /\ markets'[id].id = markets[id].id
          /\ markets'[id].creator = markets[id].creator
          /\ markets'[id].question = markets[id].question
          /\ markets'[id].options = markets[id].options
          /\ markets'[id].created_at = markets[id].created_at

\* C11, as one formula: IdsDense in every reachable state and IdsStep in
\* every step.
MarketIds == []IdsDense /\ [][IdsStep]_vars

\* Two markets stored under 1 and 2, and a CreateMarket that just failed.
MarketIdsWitness ==
    /\ next_market_id = 3
    /\ DOMAIN markets = {1, 2}
    /\ markets[1].created_at # markets[2].created_at
    /\ last.op = "CreateMarket" /\ ~last.ok

\* The seven preconditions of PlaceBet in the order the specification lists
\* them, each with the error reported when it is the first one violated. The
\* four that read the market count as met when there is no such market.
BetChecks(id, signer, time, option, amount) ==
    LET exists == id \in DOMAIN markets IN
    << amount > 0,
       signer # NoSigner,
       exists,
       exists => markets[id].status = "Active",
       exists => time < markets[id].end_time,
       exists => \E i \in DOMAIN markets[id].options : markets[id].options[i] = option,
       exists => <<id, signer>> \notin DOMAIN user_bets >>

BetErrors ==
    << "Bet amount must be greater than 0",
       "Unauthorized: No authenticated signer",
       "Market not found",
       "Market is not active",
       "Market has ended",
       "Invalid option",
       "User already placed a bet on this market" >>

\* C12, for the calls a state admits: the error of a PlaceBet is the one of
\* the first violated precondition, and the ledger is left as it was; a
\* PlaceBet that violates none reports none of the seven errors.
BetErrorFirst ==
    \A id \in AnyMarketId, signer \in AnySigner, option \in Labels,
       amount \in AnyAmount :
       LET holds == BetChecks(id, signer, now, option, amount)
           failing == {i \in 1..7 : ~holds[i]}
           res == place_bet(Ledger, Context(signer, now, FALSE), id, option, amount)
       IN IF failing = {}
            THEN \A i \in 1..7 : res.err # BetErrors[i]
            ELSE /\ ~res.ok
                 /\ res.err = BetErrors[CHOOSE i \in failing : \A j \in failing : i <= j]
                 /\ res.st = Ledger

\* C12: in every reachable state a PlaceBet that violates several
\* preconditions fails with the error of the first violated one in the
\* order amount > 0, caller resolvable, market exists, status Active,
\* now < end_time, option offered, no earlier bet of the caller.
BetErrorPrecedence == []BetErrorFirst

\* A bet was just refused as "not active" although every market stored is
\* also past its end time, so the call violated the status and the time
\* precondition at once; in the same state a bet of zero without a signer
\* on a missing market violates the first three.
BetErrorPrecedenceWitness ==
    /\ last.op = "PlaceBet"
    /\ last.err = "Market is not active"
    /\ DOMAIN markets = {1, 2}
    /\ \A id \in DOMAIN markets :
          markets[id].status = "Resolved" /\ now >= markets[id].end_time

\* C13: the product bet.amount * total_pool of ResolveMarket is formed
\* without overflow or wrap-around: every winning bet of a resolved market
\* carries exactly min(max_reward, floor(amount * total_pool / winning_pool))
\* over the integers, and no ResolveMarket aborts in the multiplication,
\* whatever the build.
OverflowFreeRewards ==
    /\ \A bet_key \in DOMAIN user_bets :
          LET market == markets[bet_key[1]]
              bet == user_bets[bet_key]
          IN (/\ market.status = "Resolved"
              /\ market.correct_answer = Some(bet.option)
              /\ PoolOf(market, bet.option) > 0)
             => bet.reward_amount =
                  Min(market.max_reward,
                      (bet.amount * market.total_pool) \div PoolOf(market, bet.option))
    /\ \A id \in DOMAIN markets, signer \in AnySigner, checks \in Builds,
          correct_answer \in Labels, time \in Times :
          resolve_market(Ledger, Context(signer, time, checks), id, correct_answer).err
            # ErrPanic

\* C14, in a state: a market's correct_answer is unset exactly when its
\* status is not Resolved, and an answer that is set is one of the market's
\* options.
AnswerStored ==
    \A id \in DOMAIN markets :
      /\ (markets[id].correct_answer = None) <=> (markets[id].status # "Resolved")
      /\ markets[id].correct_answer # None =>
           /\ Len(markets[id].correct_answer) = 1
           /\ \E i \in DOMAIN markets[id].options :
                 markets[id].options[i] = markets[id].correct_answer[1]

\* C14, in a step: an answer that is set stays as it is.
AnswerStep ==
    \A id \in DOMAIN markets :
      markets[id].correct_answer # None =>
        /\ id \in DOMAIN markets'
        /\ markets'[id].correct_answer = markets[id].correct_answer

\* C14: correct_answer is unset exactly while the market is not Resolved,
\* is a member of options once set, and never changes afterwards.
AnswerConsistency == []AnswerStored /\ [][AnswerStep]_vars

\* Market 1 resolved to No and market 2 still without an answer, after a
\* second ResolveMarket on market 1 was refused.
AnswerConsistencyWitness ==
    /\ DOMAIN markets = {1, 2}
    /\ markets[1].status = "Resolved" /\ markets[1].correct_answer = Some("No")
    /\ markets[2].status = "Active" /\ markets[2].correct_answer = None
    /\ last.op = "ResolveMarket" /\ last.err = "Market already resolved"

\* C15: a bet has reward_amount > 0 only if its market is Resolved and the
\* bet's option is the market's correct_answer; in every reachable state the
\* bets on losing options and the bets on markets not resolved carry 0.
RewardsOnlyForWinners ==
    \A bet_key \in DOMAIN user_bets :
      LET bet == user_bets[bet_key] IN
      /\ bet_key[1] \in DOMAIN markets
      /\ bet.reward_amount > 0 =>
           /\ markets[bet_key[1]].status = "Resolved"
           /\ markets[bet_key[1]].correct_answer = Some(bet.option)
      /\ markets[bet_key[1]].status # "Resolved" => bet.reward_amount = 0
      /\ markets[bet_key[1]].correct_answer # Some(bet.option) => bet.reward_amount = 0

\* A resolved market with a rewarded winner and a loser left at 0, whose
\* claim was just refused.
RewardsOnlyForWinnersWitness ==
    /\ last.op = "ClaimReward" /\ last.err = "User did not win this market"
    /\ \E id \in DOMAIN markets :
          /\ markets[id].status = "Resolved"
          /\ \E winner, loser \in Users :
                /\ <<id, winner>> \in DOMAIN user_bets
                /\ <<id, loser>> \in DOMAIN user_bets
                /\ markets[id].correct_answer = Some(user_bets[<<id, winner>>].option)
                /\ markets[id].correct_answer # Some(user_bets[<<id, loser>>].option)
                /\ user_bets[<<id, winner>>].reward_amount > 0
                /\ user_bets[<<id, loser>>].amount > 0
                /\ user_bets[<<id, loser>>].reward_amount = 0

\* C16, in a state: a claimed bet is a bet on the correct answer of a
\* Resolved market with a positive reward_amount.
ClaimedStored ==
    \A bet_key \in DOMAIN user_bets :
      user_bets[bet_key].claimed =>
        /\ markets[bet_key[1]].status = "Resolved"
        /\ markets[bet_key[1]].correct_answer = Some(user_bets[bet_key].option)
        /\ user_bets[bet_key].reward_amount > 0

\* C16, in a step: a bet enters the ledger unclaimed; claimed never goes
\* back to false; it goes from false to true only in a successful
\* ClaimReward whose caller is the bet's user, on the bet's market.
ClaimedStep ==
    /\ \A bet_key \in DOMAIN user_bets' \ DOMAIN user_bets :
          ~user_bets'[bet_key].claimed
    /\ \A bet_key \in DOMAIN user_bets :
          /\ bet_key \in DOMAIN user_bets'
          /\ user_bets[bet_key].claimed => user_bets'[bet_key].claimed
          /\ (~user_bets[bet_key].claimed /\ user_bets'[bet_key].claimed) =>
                /\ Succeeded("ClaimReward")
                /\ last'.effects[1].user = user_bets[bet_key].user
                /\ last'.effects[1].user = bet_key[2]
                /\ last'.effects[1].market_id = bet_key[1]

\* C16: claimed is false at placement, changes only from false to true and
\* only in a successful ClaimReward of the bet's owner, never reverts, and
\* implies Resolved, option = correct_answer and reward_amount > 0.
ClaimedFlag == []ClaimedStored /\ [][ClaimedStep]_vars

\* A and B both won market 1; A has just claimed and B's bet is still
\* unclaimed.
ClaimedFlagWitness ==
    /\ last.op = "ClaimReward" /\ last.ok
    /\ last.effects[1].user = "A"
    /\ <<1, "A">> \in DOMAIN user_bets /\ <<1, "B">> \in DOMAIN user_bets
    /\ user_bets[<<1, "A">>].option = user_bets[<<1, "B">>].option
    /\ user_bets[<<1, "A">>].claimed
    /\ user_bets[<<1, "B">>].reward_amount > 0
    /\ ~user_bets[<<1, "B">>].claimed

\* C17, for the calls a state admits: a CreateMarket with a non-empty
\* question, at least two options, max_reward > 0 and a signer succeeds,
\* stores under the current next_market_id a market with creator = caller,
\* status Active, no correct_answer, no bets, total_pool 0, created_at = now
\* and end_time = now + the duration, and emits exactly one MarketCreated
\* with that id and creator; a call violating one of the four stores
\* nothing and emits nothing; every stored market has a non-empty question,
\* at least two options and max_reward > 0.
CreateMarketChecked ==
    /\ \A signer \in AnySigner, question \in AnyQuestion,
          options \in AnyOptionList, duration_minutes \in AnyDuration,
          max_reward \in AnyAmount :
          LET time == now
              res == create_market(Ledger, Context(signer, time, FALSE), question, "D",
                                   duration_minutes, options, max_reward)
              valid == /\ question # ""
                       /\ Len(options) >= 2
                       /\ max_reward > 0
                       /\ signer # NoSigner
          IN IF valid
               THEN /\ res.ok
                    /\ DOMAIN res.st.markets = DOMAIN markets \cup {next_market_id}
                    /\ \A id \in DOMAIN markets : res.st.markets[id] = markets[id]
                    /\ res.st.user_bets = user_bets
                    /\ res.st.markets[next_market_id] =
                         [id |-> next_market_id,
                          creator |-> signer,
                          question |-> question,
                          description |-> "D",
                          end_time |-> time + duration_minutes * TickMs,
                          status |-> "Active",
                          options |-> options,
                          correct_answer |-> None,
                          bets |-> EmptyMap,
                          total_pool |-> 0,
                          max_reward |-> max_reward,
                          created_at |-> time]
                    /\ res.effects = << [type |-> "MarketCreated",
                                         market_id |-> next_market_id,
                                         creator |-> signer] >>
               ELSE /\ ~res.ok
                    /\ res.st = Ledger
                    /\ res.effects = << >>
    /\ \A id \in DOMAIN markets :
          /\ markets[id].question # ""
          /\ Len(markets[id].options) >= 2
          /\ markets[id].max_reward > 0

\* C17: in every reachable state a valid CreateMarket succeeds, stores the
\* market described under next_market_id and emits one MarketCreated; an
\* invalid one stores nothing; every stored market has a non-empty
\* question, at least two options and max_reward > 0.
CreateMarketEffect == []CreateMarketChecked

\* The second market, just created one minute after the first, open for
\* one minute.
CreateMarketEffectWitness ==
    /\ last.op = "CreateMarket" /\ last.ok
    /\ last.effects = << [type |-> "MarketCreated", market_id |-> 2, creator |-> "A"] >>
    /\ now = TickMs
    /\ markets[2].created_at = TickMs
    /\ markets[2].end_time = 2 * TickMs
    /\ markets[2].status = "Active"
    /\ markets[1].created_at = 0

\* C18: no stored market's options list repeats a label, and a CreateMarket
\* whose options repeat a label does not succeed.
DistinctOptions ==
    /\ \A id \in DOMAIN markets :
          \A i, j \in DOMAIN markets[id].options :
            markets[id].options[i] = markets[id].options[j] => i = j
    /\ \A signer \in AnySigner, checks \in Builds, options \in AnyOptionList,
          max_reward \in AnyAmount :
          (\E i, j \in DOMAIN options : i # j /\ options[i] = options[j]) =>
            ~create_market(Ledger, Context(signer, now, checks), "Q", "D", 1, options,
                           max_reward).ok

\* C19: a successful ResolveMarket(m, answer) changes only m.status,
\* m.correct_answer and the reward_amount of the bets on m whose option is
\* answer: m's bets map, total_pool, options, end_time, max_reward and
\* creator, every bet's amount, option and claimed, next_market_id, every
\* other market and every bet on another market, also one on an option of
\* the same name, are as before.
ResolveFrameStep ==
    Succeeded("ResolveMarket") =>
      LET m == last'.effects[1].market_id
          answer == last'.effects[1].correct_answer
      IN /\ next_market_id' = next_market_id
         /\ DOMAIN markets' = DOMAIN markets
         /\ DOMAIN user_bets' = DOMAIN user_bets
         /\ \A id \in DOMAIN markets : id # m => markets'[id] = markets[id]
         /\ markets'[m] = [markets[m] EXCEPT !.status = "Resolved",
                                             !.correct_answer = Some(answer)]
         /\ \A bet_key \in DOMAIN user_bets :
               IF bet_key[1] = m /\ user_bets[bet_key].option = answer
                 THEN user_bets'[bet_key] =
                        [user_bets[bet_key] EXCEPT
                           !.reward_amount = user_bets'[bet_key].reward_amount]
                 ELSE user_bets'[bet_key] = user_bets[bet_key]

ResolveFrame == [][ResolveFrameStep]_vars

\* Market 1 was just resolved to Yes and its winner rewarded, while the
\* bet on Yes in market 2, still Active, is untouched.
ResolveFrameWitness ==
    /\ last.op = "ResolveMarket" /\ last.ok
    /\ last.effects[1].market_id = 1 /\ last.effects[1].correct_answer = "Yes"
    /\ DOMAIN markets = {1, 2}
    /\ markets[2].status = "Active"
    /\ \E winner, other \in Users :
          /\ <<1, winner>> \in DOMAIN user_bets
          /\ user_bets[<<1, winner>>].option = "Yes"
          /\ user_bets[<<1, winner>>].reward_amount > 0
          /\ <<2, other>> \in DOMAIN user_bets
          /\ user_bets[<<2, other>>].option = "Yes"
          /\ user_bets[<<2, other>>].reward_amount = 0

\* C20, for the calls a state admits: a successful PlaceBet of amount on an
\* option raises the market's total_pool and that option's total by exactly
\* amount and leaves the other options' totals alone.
PoolGrowth ==
    \A id \in DOMAIN markets, signer \in AnySigner, option \in Labels,
       amount \in AnyAmount :
       LET res == place_bet(Ledger, Context(signer, now, FALSE), id, option, amount) IN
       res.ok =>
         /\ res.st.markets[id].total_pool = markets[id].total_pool + amount
         /\ PoolOf(res.st.markets[id], option) = PoolOf(markets[id], option) + amount
         /\ \A other \in Labels \ {option} :
               PoolOf(res.st.markets[id], other) = PoolOf(markets[id], other)

\* C20, in a step: no market's total_pool or per-option total goes down;
\* they change only in a successful PlaceBet on that market, by the amount
\* of the bet and on its option; on a Resolved market they and the set of
\* bets on the market stay as they are.
PoolStep ==
    \A id \in DOMAIN markets :
      LET grown == \/ markets'[id].total_pool # markets[id].total_pool
                   \/ markets'[id].bets # markets[id].bets
      IN /\ id \in DOMAIN markets'
         /\ markets'[id].total_pool >= markets[id].total_pool
         /\ \A option \in Labels :
               PoolOf(markets'[id], option) >= PoolOf(markets[id], option)
         /\ grown =>
               /\ Succeeded("PlaceBet")
               /\ last'.effects[1].market_id = id
               /\ last'.effects[1].amount > 0
               /\ markets'[id].total_pool =
                    markets[id].total_pool + last'.effects[1].amount
               /\ \A option \in Labels :
                     PoolOf(markets'[id], option) =
                       PoolOf(markets[id], option)
                         + (IF option = last'.effects[1].option
                              THEN last'.effects[1].amount ELSE 0)
         /\ markets[id].status = "Resolved" =>
               /\ ~grown
               /\ {bet_key \in DOMAIN user_bets' : bet_key[1] = id} = BetsOn(id)
               /\ \A bet_key \in BetsOn(id) :
                     /\ user_bets'[bet_key].amount = user_bets[bet_key].amount
                     /\ user_bets'[bet_key].option = user_bets[bet_key].option

\* C20: total_pool and every bets[option] never decrease, grow only in a
\* successful PlaceBet on that market by exactly the bet's amount on the
\* bet's option, and are frozen, with the set of bets, once the market is
\* Resolved, also across ClaimReward.
PoolMonotone == []PoolGrowth /\ [][PoolStep]_vars

\* A reward was just claimed on resolved market 1, whose pool of 2 with one
\* unit on each option is as the bets left it.
PoolMonotoneWitness ==
    /\ last.op = "ClaimReward" /\ last.ok
    /\ last.effects[1].market_id = 1
    /\ markets[1].status = "Resolved"
    /\ markets[1].total_pool = 2
    /\ PoolOf(markets[1], "Yes") = 1 /\ PoolOf(markets[1], "No") = 1
    /\ BetsOn(1) = {<<1, "A">>, <<1, "B">>}

\* The amounts of the stored bets on one option of one market, added up.
StakedOn(id, option) ==
    LET keys == {bet_key \in BetsOn(id) : user_bets[bet_key].option = option}
    IN SumOver([bet_key \in keys |-> user_bets[bet_key].amount], keys)

\* C21: in every reachable state every bet record stored under (m, u)
\* refers to a stored market m, has market_id = m, user = u, amount > 0 and
\* an option among m's options; for every market and every label the
\* market's bets[label] (0 when absent) is the sum of the amounts of the
\* stored bets on that market and label, and total_pool is the sum of the
\* amounts of all stored bets on the market.
LedgerConsistency ==
    /\ \A bet_key \in DOMAIN user_bets :
          LET bet == user_bets[bet_key] IN
          /\ bet_key[1] \in DOMAIN markets
          /\ bet.market_id = bet_key[1]
          /\ bet.user = bet_key[2]
          /\ bet.user \in Users
          /\ bet.amount > 0
          /\ \E i \in DOMAIN markets[bet_key[1]].options :
                markets[bet_key[1]].options[i] = bet.option
    /\ \A id \in DOMAIN markets :
          /\ DOMAIN markets[id].bets \subseteq Labels
          /\ \A option \in Labels : PoolOf(markets[id], option) = StakedOn(id, option)
          /\ markets[id].total_pool =
               SumOver([bet_key \in BetsOn(id) |-> user_bets[bet_key].amount], BetsOn(id))

\* Both markets carry bets on Yes: A and B on market 1, only B on market 2,
\* and a bet on a label market 2 does not offer was just refused.
LedgerConsistencyWitness ==
    /\ last.op = "PlaceBet" /\ last.err = "Invalid option"
    /\ BetsOn(1) = {<<1, "A">>, <<1, "B">>}
    /\ BetsOn(2) = {<<2, "B">>}
    /\ StakedOn(1, "Yes") = 2
    /\ StakedOn(2, "Yes") = 1
    /\ markets[1].total_pool = 2 /\ markets[2].total_pool = 1

\* The rewards of the bets of a market that satisfy a condition, added up.
RewardsOf(keys) == SumOver([bet_key \in keys |-> user_bets[bet_key].reward_amount], keys)

\* C22: for every resolved market the reward_amounts of all its bets add up
\* to at most its total_pool; a ClaimReward succeeds only on a bet not yet
\* claimed, marks it claimed and reports exactly its reward_amount, so the
\* amounts of the successful RewardClaimed events of a market are the
\* rewards of its claimed bets, which add up to at most total_pool as well.
Solvency ==
    /\ \A id \in DOMAIN markets :
          markets[id].status = "Resolved" =>
            /\ RewardsOf(BetsOn(id)) <= markets[id].total_pool
            /\ RewardsOf({bet_key \in BetsOn(id) : user_bets[bet_key].claimed})
                 <= markets[id].total_pool
    /\ \A id \in DOMAIN markets, signer \in AnySigner, checks \in Builds :
          LET res == claim_reward(Ledger, Context(signer, now, checks), id) IN
          res.ok =>
            /\ ~user_bets[<<id, signer>>].claimed
            /\ res.st.user_bets[<<id, signer>>].claimed
            /\ res.effects[1].amount = user_bets[<<id, signer>>].reward_amount
            /\ res.st.user_bets[<<id, signer>>].reward_amount
                 = user_bets[<<id, signer>>].reward_amount
            /\ res.st.markets = markets

\* Winners A (100) and B (300) against C (1) under the cap of 1000: the
\* shares 100 and 300 leave one unit of the pool of 401 unpaid, and both
\* have claimed.
SolvencyWitness ==
    /\ last.op = "ClaimReward" /\ last.ok
    /\ \E id \in DOMAIN markets :
          /\ markets[id].status = "Resolved"
          /\ markets[id].total_pool = 401
          /\ markets[id].max_reward = 1000
          /\ user_bets[<<id, "A">>].reward_amount = 100 /\ user_bets[<<id, "A">>].claimed
          /\ user_bets[<<id, "B">>].reward_amount = 300 /\ user_bets[<<id, "B">>].claimed
          /\ user_bets[<<id, "C">>].reward_amount = 0
          /\ RewardsOf(BetsOn(id)) = 400

\* C23: every bet on the correct answer of a resolved market has
\* reward_amount >= min(amount, max_reward) > 0, and no ClaimReward, by
\* whomever and on whatever market, fails with "No reward available".
WinnersRewarded ==
    /\ \A id \in DOMAIN markets :
          markets[id].status = "Resolved" =>
            \A bet_key \in WinningBets(id) :
              /\ user_bets[bet_key].reward_amount
                   >= Min(user_bets[bet_key].amount, markets[id].max_reward)
              /\ Min(user_bets[bet_key].amount, markets[id].max_reward) > 0
    /\ \A id \in AnyMarketId, signer \in AnySigner, checks \in Builds :
          claim_reward(Ledger, Context(signer, now, checks), id).err
            # "No reward available"

\* C24, in a state: a Resolved market has end_time <= now; every stored bet
\* was placed before its market's end_time and not after now; a PlaceBet
\* that the status check rejects comes at or after the market's end_time,
\* where the time check rejects it as well.
EndedStored ==
    /\ \A id \in DOMAIN markets :
          markets[id].status = "Resolved" => markets[id].end_time <= now
    /\ \A bet_key \in DOMAIN user_bets :
          /\ user_bets[bet_key].timestamp < markets[bet_key[1]].end_time
          /\ user_bets[bet_key].timestamp <= now
    /\ \A id \in DOMAIN markets, signer \in AnySigner, option \in Labels,
          amount \in AnyAmount :
          place_bet(Ledger, Context(signer, now, FALSE), id, option, amount).err
            = "Market is not active"
          => now >= markets[id].end_time

\* C24, in a step: the clock does not go back, and a Resolved market gets
\* no further bet.
EndedStep ==
    /\ now' >= now
    /\ \A id \in DOMAIN markets :
          markets[id].status = "Resolved" =>
            {bet_key \in DOMAIN user_bets' : bet_key[1] = id} = BetsOn(id)

\* C24: under a clock that never goes back, a Resolved market has ended,
\* every bet is older than its market's end_time, no bet is recorded on a
\* market once it is resolved, and the time check alone rejects every
\* PlaceBet the status check rejects.
ResolvedImpliesEnded == []EndedStored /\ [][EndedStep]_vars

\* Market 1, bet on at time 0 and resolved at its end, refuses a bet as not
\* active, while market 2, created at that moment, is still open.
ResolvedImpliesEndedWitness ==
    /\ last.op = "PlaceBet" /\ last.err = "Market is not active"
    /\ DOMAIN markets = {1, 2}
    /\ markets[1].status = "Resolved" /\ markets[1].end_time = now
    /\ BetsOn(1) # {}
    /\ \A bet_key \in BetsOn(1) : user_bets[bet_key].timestamp = 0
    /\ markets[2].status = "Active" /\ markets[2].end_time > now

\* u holds a bet on the correct answer of resolved market id.
Winner(id, user) ==
    /\ id \in DOMAIN markets
    /\ markets[id].status = "Resolved"
    /\ <<id, user>> \in WinningBets(id)

\* C25, in a state: whatever the clock and the build, a ClaimReward by the
\* holder of an unclaimed winning bet succeeds and reports exactly the bet's
\* reward_amount.
ClaimSucceeds ==
    \A id \in DOMAIN markets, user \in Users, checks \in Builds, time \in Times :
       (Winner(id, user) /\ ~user_bets[<<id, user>>].claimed) =>
          LET res == claim_reward(Ledger, Context(user, time, checks), id) IN
          /\ res.ok
          /\ res.effects = << [type |-> "RewardClaimed", market_id |-> id, user |-> user,
                               amount |-> user_bets[<<id, user>>].reward_amount] >>

\* C25, in a step: no call, of this or another user, on this or another
\* market, changes the reward_amount of a bet on a resolved market, so what
\* a claim pays does not depend on the order of the claims.
RewardFixedStep ==
    \A bet_key \in DOMAIN user_bets :
       markets[bet_key[1]].status = "Resolved" =>
         /\ bet_key \in DOMAIN user_bets'
         /\ user_bets'[bet_key].reward_amount = user_bets[bet_key].reward_amount

\* C25: the holder of an unclaimed winning bet on a resolved market can
\* claim at any later time and in any interleaving, and is paid exactly the
\* reward_amount fixed at resolution; when every user's ClaimReward is
\* weakly fair, every winning bet is eventually claimed.
WinnersCanClaim ==
    /\ []ClaimSucceeds
    /\ [][RewardFixedStep]_vars
    /\ \A id \in AnyMarketId, user \in Users :
          Winner(id, user) ~> (Winner(id, user) /\ user_bets[<<id, user>>].claimed)

====
